---- MODULE Spec2Model ----
(***************************************************************************)
(* dds_glossary: ingestion of SKOS/RDF datasets into a relational database *)
(* (controllers.py), the record classes and their XML extraction           *)
(* (model.py) and the persistence and query functions (database.py).       *)
(*                                                                         *)
(* An XML element is a record [tag, about, children]; a child is a record  *)
(* [tag, resource, lang, text].  A Python dict[str, str] is a function     *)
(* whose domain is the set of its keys.  A call that raises is a record    *)
(* [raised |-> <exception type>, ...]; raised = "" means a normal return.  *)
(***************************************************************************)
EXTENDS Integers, Sequences, FiniteSets, TLC

VARIABLES
    environ,          \* os.environ["DATABASE_URL"] ("" when unset)
    database,         \* [exists, tables]: the database behind the engine
    remote,           \* dataset file name -> what its download URL serves
    pc,               \* position of init_datasets: "idle" or "loop"
    idx,              \* index in `datasets` of the next dataset of the loop
    saved_datasets,   \* init_datasets' local list
    failed_datasets,  \* init_datasets' local list
    attempts,         \* what each iteration of the running loop did
    runs,             \* number of init_datasets calls so far
    saves,            \* number of direct save_dataset calls so far
    lastSave,         \* the last save_dataset call: arguments, db before, outcome
    call,             \* arguments of the pending call of a pure function
    reload,           \* the reload argument of the last init_datasets call
    local,            \* dataset file name -> the document at data_dir / name
    prevRun,          \* what the init_datasets call before the last one left
    ret               \* what the last call returned (or raised)

vars == <<environ, database, remote, pc, idx, saved_datasets, failed_datasets,
          attempts, runs, saves, lastSave, call, reload, local, prevRun, ret>>

\* ---------------------------------------------------------------- bounds

NumDatasets == 2      \* entries of GlossaryController.datasets that are modelled
MaxRuns == 2          \* init_datasets calls in one behaviour
MaxSaves == 2         \* direct save_dataset calls in one behaviour
MaxChildren == 2      \* sub-elements of a generated concept element

\* ------------------------------------------------------- sequence helpers

Range(s) == {s[i] : i \in 1..Len(s)}

RECURSIVE Concat(_)
Concat(ss) == IF ss = <<>> THEN <<>> ELSE Head(ss) \o Concat(Tail(ss))

SeqsUpTo(S, n) == UNION {[1..k -> S] : k \in 0..n}

\* ------------------------------------------------------------- model.py

SemanticRelationType ==
    <<"broader", "narrower", "related", "broaderTransitive", "narrowerTransitive">>

\* element.findall(tag): the children with that tag, in document order
findall(element, tag) ==
    LET HasTag(c) == c.tag = tag IN SelectSeq(element.children, HasTag)

get_sub_element_text(element, tag, default_value) ==
    LET found == findall(element, tag)
    IN  IF found # <<>> THEN found[1].text ELSE default_value

\* {label.get(lang): label.text for label in labels}: a later label of a
\* language replaces an earlier one
RECURSIVE LabelDict(_)
LabelDict(labels) ==
    IF labels = <<>> THEN <<>>
    ELSE LET n == Len(labels)
             before == LabelDict(SubSeq(labels, 1, n - 1))
             last == labels[n]
         IN  [l \in (DOMAIN before) \cup {last.lang} |->
                 IF l = last.lang THEN last.text ELSE before[l]]

\* attribute.get(lang, ""): no fallback to English
get_in_language_no_fallback(attribute, lang) ==
    IF lang \in DOMAIN attribute THEN attribute[lang] ELSE ""

get_in_language(attribute, lang) ==
    IF lang \in DOMAIN attribute THEN attribute[lang]
    ELSE IF "en" \in DOMAIN attribute THEN attribute["en"]
    ELSE ""

ConceptScheme_from_xml_element(element) ==
    [iri |-> element.about,
     notation |-> get_sub_element_text(element, "core:notation", ""),
     scopeNote |-> get_sub_element_text(element, "core:scopeNote", ""),
     prefLabels |-> LabelDict(findall(element, "core:prefLabel"))]

ConceptScheme_to_dict(self, lang) ==
    [iri |-> self.iri,
     notation |-> self.notation,
     scopeNote |-> self.scopeNote,
     prefLabel |-> get_in_language(self.prefLabels, lang)]

\* the attributes the class Concept declares
ConceptAttributes ==
    {"iri", "identifier", "notation", "prefLabels", "altLabels", "scopeNotes",
     "concept_schemes"}

\* the positional parameters of Concept.from_xml_element after cls
ConceptFromXmlParams == <<"element", "concept_schemes">>

Concept_from_xml_element(element, concept_schemes) ==
    LET refs == findall(element, "core:inScheme")
        scheme_iris == [i \in 1..Len(refs) |-> refs[i].resource]
        Referenced(concept_scheme) == concept_scheme.iri \in Range(scheme_iris)
    IN  [iri |-> element.about,
         identifier |-> get_sub_element_text(element, "x_1.1:identifier", ""),
         notation |-> get_sub_element_text(element, "core:notation", ""),
         prefLabels |-> LabelDict(findall(element, "core:prefLabel")),
         altLabels |-> LabelDict(findall(element, "core:altLabel")),
         scopeNotes |-> LabelDict(findall(element, "core:scopeNote")),
         concept_schemes |-> SelectSeq(concept_schemes, Referenced)]

Concept_to_dict(self, lang) ==
    [iri |-> self.iri,
     identifier |-> self.identifier,
     notation |-> self.notation,
     prefLabel |-> get_in_language(self.prefLabels, lang),
     altLabel |-> get_in_language(self.altLabels, lang),
     scopeNote |-> get_in_language(self.scopeNotes, lang)]

\* element.find instead of element.findall: the first sub-element of each type
SemanticRelation_from_xml_first(element) ==
    Concat([t \in 1..Len(SemanticRelationType) |->
        LET found == findall(element, "core:" \o SemanticRelationType[t])
        IN  IF found = <<>> THEN <<>>
            ELSE <<[type |-> SemanticRelationType[t],
                    source_concept_iri |-> element.about,
                    target_concept_iri |-> found[1].resource]>>])

\* one record per sub-element of each relation type, types in enum order
SemanticRelation_from_xml_element(element) ==
    Concat([t \in 1..Len(SemanticRelationType) |->
        LET found == findall(element, "core:" \o SemanticRelationType[t])
        IN  [i \in 1..Len(found) |->
                [type |-> SemanticRelationType[t],
                 source_concept_iri |-> element.about,
                 target_concept_iri |-> found[i].resource]]])

\* a member of SemanticRelationType is represented by its value, so
\* self.type.value is self.type
SemanticRelation_to_dict(self) ==
    [type |-> self.type,
     source_concept_iri |-> self.source_concept_iri,
     target_concept_iri |-> self.target_concept_iri]

\* ----------------------------------------------------------- database.py

EmptyTables ==
    [concept_schemes |-> {}, concepts |-> {}, in_scheme |-> {},
     semantic_relations |-> {}]

\* Python's None where a string is expected
None == "<None>"

DatabaseUrl == "postgresql://glossary"

create_database(db) == [exists |-> TRUE, created |-> FALSE, tables |-> EmptyTables]

\* init_engine that leaves the tables of an existing database as they are
drop_all_skipped(db) == db

\* Base.metadata.drop_all(engine)
drop_all(db) == [db EXCEPT !.created = FALSE, !.tables = EmptyTables]

\* Base.metadata.create_all(engine): creates the tables that do not exist
create_all(db) == [db EXCEPT !.created = TRUE]

\* init_engine without the check of the URL
init_engine_unchecked(database_url, drop_database_flag, env, db) ==
    [raised |-> "", msg |-> "", engine |-> TRUE,
     database |-> IF ~db.exists THEN create_all(create_database(db))
                  ELSE IF drop_database_flag THEN create_all(drop_all(db))
                  ELSE create_all(db)]

\* init_engine(database_url, drop_database_flag) with os.environ's
\* DATABASE_URL = env (None when unset).  Returns the database as the call
\* leaves it, and whether create_engine was called.
init_engine(database_url, drop_database_flag, env, db) ==
    LET url == IF database_url = None THEN env ELSE database_url
    IN  IF url \in {None, ""}
        THEN [raised |-> "ValueError",
              msg |-> "DATABASE_URL environment variable is not set.",
              engine |-> FALSE,
              database |-> db]
        ELSE [raised |-> "", msg |-> "", engine |-> TRUE,
              database |->
                  IF ~db.exists THEN create_all(create_database(db))
                  ELSE IF drop_database_flag THEN create_all(drop_all(db))
                  ELSE create_all(db)]

\* A JSONB column: the dict goes through json.dumps, which writes the key
\* None (a label without xml:lang) as "null", and comes back through
\* json.loads with string keys.
json_dumps(mapping) ==
    IF DOMAIN mapping = {} THEN mapping
    ELSE [k \in {IF x = None THEN "null" ELSE x : x \in DOMAIN mapping} |->
             IF k \in DOMAIN mapping THEN mapping[k] ELSE mapping[None]]

\* the names of the members of SemanticRelationType, in the order of the values
SemanticRelationTypeNames ==
    <<"BROADER", "NARROWER", "RELATED", "BROADER_TRANSITIVE", "NARROWER_TRANSITIVE">>

\* An Enum column stores the name of the member ...
EnumName(member) ==
    SemanticRelationTypeNames[CHOOSE t \in 1..Len(SemanticRelationType) :
                                  SemanticRelationType[t] = member]

\* an Enum column read as the stored string
EnumRaw(name) == name

\* ... and a loaded row has the member of that name
EnumMember(name) ==
    SemanticRelationType[CHOOSE t \in 1..Len(SemanticRelationTypeNames) :
                             SemanticRelationTypeNames[t] = name]

\* The column values of a ConceptScheme.
ConceptSchemeRow(concept_scheme) ==
    [iri |-> concept_scheme.iri, notation |-> concept_scheme.notation,
     scopeNote |-> concept_scheme.scopeNote,
     prefLabels |-> json_dumps(concept_scheme.prefLabels)]

\* The column values of a Concept (the relationship concept_schemes is stored
\* in the join table in_scheme).
ConceptRow(concept) ==
    [iri |-> concept.iri, identifier |-> concept.identifier,
     notation |-> concept.notation, prefLabels |-> json_dumps(concept.prefLabels),
     altLabels |-> json_dumps(concept.altLabels),
     scopeNotes |-> json_dumps(concept.scopeNotes)]

\* The column values of a SemanticRelation.
SemanticRelationRow(semantic_relation) ==
    [type |-> EnumName(semantic_relation.type),
     source_concept_iri |-> semantic_relation.source_concept_iri,
     target_concept_iri |-> semantic_relation.target_concept_iri]

\* The SemanticRelation loaded from a row.
LoadRelation(row) == [row EXCEPT !.type = EnumMember(row.type)]

InSchemeRows(concept) ==
    [i \in 1..Len(concept.concept_schemes) |->
        [scheme_iri |-> concept.concept_schemes[i].iri, concept_iri |-> concept.iri]]

\* The schemes reached only through a concept's concept_schemes (save-update
\* cascade of the relationship), in order of first occurrence.
RECURSIVE Cascaded(_, _)
Cascaded(known, schemes) ==
    IF schemes = <<>> THEN <<>>
    ELSE IF Head(schemes) \in known THEN Cascaded(known, Tail(schemes))
    ELSE <<Head(schemes)>> \o Cascaded(known \cup {Head(schemes)}, Tail(schemes))

\* The INSERTs of one flush: session.add_all of the three lists, parents
\* before the rows that reference them.
PendingRows(concept_schemes, concepts, semantic_relations) ==
    LET linked == Concat([i \in 1..Len(concepts) |-> concepts[i].concept_schemes])
        schemes == concept_schemes \o Cascaded(Range(concept_schemes), linked)
    IN  [i \in 1..Len(schemes) |->
               [table |-> "concept_schemes", row |-> ConceptSchemeRow(schemes[i])]]
        \o [i \in 1..Len(concepts) |->
               [table |-> "concepts", row |-> ConceptRow(concepts[i])]]
        \o Concat([i \in 1..Len(concepts) |->
               LET rows == InSchemeRows(concepts[i])
               IN  [j \in 1..Len(rows) |-> [table |-> "in_scheme", row |-> rows[j]]]])
        \o [i \in 1..Len(semantic_relations) |->
               [table |-> "semantic_relations",
                row |-> SemanticRelationRow(semantic_relations[i])]]

\* the type of a relation as a third primary-key column
PrimaryKeyWithType(table, row) ==
    CASE table = "concept_schemes" -> <<row.iri>>
      [] table = "concepts" -> <<row.iri>>
      [] table = "in_scheme" -> <<row.scheme_iri, row.concept_iri>>
      [] table = "semantic_relations" ->
             <<row.source_concept_iri, row.target_concept_iri, row.type>>

\* The primary key of a row (model.py: primary_key=True columns).
PrimaryKey(table, row) ==
    CASE table = "concept_schemes" -> <<row.iri>>
      [] table = "concepts" -> <<row.iri>>
      [] table = "in_scheme" -> <<row.scheme_iri, row.concept_iri>>
      [] table = "semantic_relations" -> <<row.source_concept_iri, row.target_concept_iri>>

\* tables without foreign keys
NoForeignKeys(table, row) == {}

\* The foreign keys of a row: each a pair <<referenced table, referenced iri>>.
ForeignKeys(table, row) ==
    CASE table = "in_scheme" ->
             {<<"concept_schemes", row.scheme_iri>>, <<"concepts", row.concept_iri>>}
      [] table = "semantic_relations" ->
             {<<"concepts", row.source_concept_iri>>, <<"concepts", row.target_concept_iri>>}
      [] OTHER -> {}

\* One INSERT inside the open transaction: the row is added unless a
\* constraint of the table rejects it.
Insert(tables, table, row) ==
    IF \E r \in tables[table] : PrimaryKey(table, r) = PrimaryKey(table, row)
    THEN [raised |-> "IntegrityError",
          msg |-> "duplicate key value violates unique constraint " \o table \o "_pkey",
          tables |-> tables]
    ELSE IF \E fk \in ForeignKeys(table, row) :
                ~\E r \in tables[fk[1]] : r.iri = fk[2]
    THEN [raised |-> "IntegrityError",
          msg |-> "insert or update on table " \o table
                  \o " violates foreign key constraint",
          tables |-> tables]
    ELSE [raised |-> "", msg |-> "",
          tables |-> [tables EXCEPT ![table] = @ \cup {row}]]

\* session.commit(): the pending INSERTs in order, stopping at the first one
\* that is rejected.  `tables` is what the transaction has written so far.
RECURSIVE Flush(_, _)
Flush(tables, pending) ==
    IF pending = <<>> THEN [raised |-> "", msg |-> "", tables |-> tables]
    ELSE LET r == Insert(tables, Head(pending).table, Head(pending).row)
         IN  IF r.raised # "" THEN r ELSE Flush(r.tables, Tail(pending))

\* save_dataset on an autocommit connection: what was inserted before the
\* rejected INSERT stays
save_dataset_autocommit(tables, concept_schemes, concepts, semantic_relations) ==
    Flush(tables, PendingRows(concept_schemes, concepts, semantic_relations))

\* save_dataset: one Session, one commit.  A rejected INSERT raises out of
\* commit(), the transaction is rolled back and the exception propagates.
save_dataset(tables, concept_schemes, concepts, semantic_relations) ==
    LET flushed == Flush(tables, PendingRows(concept_schemes, concepts, semantic_relations))
    IN  IF flushed.raised # ""
        THEN [raised |-> flushed.raised, msg |-> flushed.msg, tables |-> tables]
        ELSE [raised |-> "", msg |-> "", tables |-> flushed.tables]

\* The rows a SELECT without ORDER BY returns: each row that satisfies the
\* WHERE clause once, in an order the database chooses.
RECURSIVE Rows(_)
Rows(table) ==
    IF table = {} THEN <<>>
    ELSE LET r == CHOOSE x \in table : TRUE IN <<r>> \o Rows(table \ {r})

get_concept_schemes(tables) == [raised |-> "", value |-> Rows(tables.concept_schemes)]

\* session.query(Concept).where(Concept.scheme_iri == concept_scheme_iri).all():
\* the class attribute Concept.scheme_iri is looked up first.
get_concepts(tables, concept_scheme_iri) ==
    LET Where(c) == c.scheme_iri = concept_scheme_iri
    IN  IF "scheme_iri" \notin ConceptAttributes
        THEN [raised |-> "AttributeError",
              msg |-> "type object 'Concept' has no attribute 'scheme_iri'",
              value |-> <<>>]
        ELSE [raised |-> "", msg |-> "",
              value |-> SelectSeq(Rows(tables.concepts), Where)]

\* .one() instead of .one_or_none()
get_concept_one(tables, concept_iri) ==
    LET Where(c) == c.iri = concept_iri
        rows == SelectSeq(Rows(tables.concepts), Where)
    IN  IF Len(rows) = 1 THEN [raised |-> "", value |-> rows]
        ELSE IF rows = <<>> THEN [raised |-> "NoResultFound", value |-> <<>>]
        ELSE [raised |-> "MultipleResultsFound", value |-> <<>>]

\* .one_or_none(): value is <<>> for None, <<concept>> for the concept found
get_concept(tables, concept_iri) ==
    LET Where(c) == c.iri = concept_iri
        rows == SelectSeq(Rows(tables.concepts), Where)
    IN  IF Len(rows) > 1
        THEN [raised |-> "MultipleResultsFound", value |-> <<>>]
        ELSE [raised |-> "", value |-> rows]

\* the WHERE clause without its second disjunct
get_relations_source_only(tables, concept_iri) ==
    LET Where(r) == r.source_concept_iri = concept_iri
        rows == SelectSeq(Rows(tables.semantic_relations), Where)
    IN  [raised |-> "", value |-> [i \in 1..Len(rows) |-> LoadRelation(rows[i])]]

get_relations(tables, concept_iri) ==
    LET Where(r) == \/ r.source_concept_iri = concept_iri
                    \/ r.target_concept_iri = concept_iri
        rows == SelectSeq(Rows(tables.semantic_relations), Where)
    IN  [raised |-> "", value |-> [i \in 1..Len(rows) |-> LoadRelation(rows[i])]]

\* -------------------------------------------------------- controllers.py

DatasetFiles ==
    <<"ESTAT-CN2024.rdf", "ESTAT-LoW2015.rdf", "ESTAT-NACE2.1.rdf",
      "ESTAT-ICST-COM.rdf", "ESTAT-PRODCOM2023.rdf">>

base_url == "http://publications.europa.eu/resource/distribution/"

\* GlossaryController.datasets, in insertion order (its first NumDatasets
\* entries)
datasets ==
    [i \in 1..NumDatasets |->
        [dataset |-> DatasetFiles[i], dataset_url |-> base_url \o DatasetFiles[i]]]

DatasetNames == {datasets[i].dataset : i \in 1..NumDatasets}

\* no file at dataset_path
NoFile == [status |-> "absent", root |-> <<>>]

\* get_ontology(dataset_url).load(reload=reload) and ontology.save(file=...):
\* "download and save the datasets, if they do not exist or if the reload
\* flag is set".  document is what is at dataset_path afterwards.
Fetch(served, file, reload_flag) ==
    IF file # NoFile /\ ~reload_flag
    THEN [raised |-> "", msg |-> "", document |-> file]
    ELSE IF served.status = "unavailable"
    THEN [raised |-> "HTTPError", msg |-> "HTTP Error 404: Not Found", document |-> file]
    ELSE [raised |-> "", msg |-> "", document |-> served]

\* parse_xml(dataset_path).getroot()
parse_xml(document) ==
    IF document.status = "malformed"
    THEN [raised |-> "XMLSyntaxError", msg |-> "Document is empty, line 1, column 1",
          root |-> <<>>]
    ELSE [raised |-> "", msg |-> "", root |-> document.root]

\* root.findall(tag, root.nsmap)
RootFindall(root, tag) == LET HasTag(e) == e.tag = tag IN SelectSeq(root, HasTag)

\* A call Concept.from_xml_element(*args): Python binds the arguments to the
\* parameters before the body runs.
CallConceptFromXml(args) ==
    IF Len(args) # Len(ConceptFromXmlParams)
    THEN [raised |-> "TypeError",
          msg |-> "Concept.from_xml_element() missing 1 required positional argument: 'concept_schemes'",
          value |-> <<>>]
    ELSE [raised |-> "", msg |-> "",
          value |-> <<Concept_from_xml_element(args[1], args[2])>>]

\* parse_dataset(dataset_path), given the document at that path
parse_dataset(document) ==
    LET parsed == parse_xml(document)
        concept_scheme_elements == RootFindall(parsed.root, "core:ConceptScheme")
        concept_elements == RootFindall(parsed.root, "core:Concept")
        concept_schemes ==
            [i \in 1..Len(concept_scheme_elements) |->
                ConceptScheme_from_xml_element(concept_scheme_elements[i])]
        calls ==
            [i \in 1..Len(concept_elements) |->
                CallConceptFromXml(<<concept_elements[i]>>)]
        semantic_relations ==
            Concat([i \in 1..Len(concept_elements) |->
                SemanticRelation_from_xml_element(concept_elements[i])])
        none == [concept_schemes |-> <<>>, concepts |-> <<>>, semantic_relations |-> <<>>]
    IN  IF parsed.raised # ""
        THEN [raised |-> parsed.raised, msg |-> parsed.msg] @@ none
        ELSE IF \E i \in 1..Len(calls) : calls[i].raised # ""
        THEN LET first == CHOOSE i \in 1..Len(calls) :
                     /\ calls[i].raised # ""
                     /\ \A j \in 1..(i - 1) : calls[j].raised = ""
             IN  [raised |-> calls[first].raised, msg |-> calls[first].msg] @@ none
        ELSE [raised |-> "", msg |-> "",
              concept_schemes |-> concept_schemes,
              concepts |-> Concat([i \in 1..Len(calls) |-> calls[i].value]),
              semantic_relations |-> semantic_relations]

\* The body of the try block of init_datasets for one dataset: what it
\* raised (raised = "" when it ran to the append) and the tables it leaves.
TryDataset(served, tables, file, reload_flag) ==
    LET fetched == Fetch(served, file, reload_flag)
        parsed == parse_dataset(fetched.document)
        saved == save_dataset(tables, parsed.concept_schemes, parsed.concepts,
                              parsed.semantic_relations)
    IN  IF fetched.raised # ""
        THEN [step |-> "fetch", raised |-> fetched.raised, msg |-> fetched.msg,
              tables |-> tables, file |-> fetched.document]
        ELSE IF parsed.raised # ""
        THEN [step |-> "parse", raised |-> parsed.raised, msg |-> parsed.msg,
              tables |-> tables, file |-> fetched.document]
        ELSE [step |-> "save", raised |-> saved.raised, msg |-> saved.msg,
              tables |-> saved.tables, file |-> fetched.document]

SavedEntry(d) == [dataset |-> d.dataset, dataset_url |-> d.dataset_url]

\* the entry of failed_datasets: "error": str(error)
FailedEntry(d, tried) ==
    [dataset |-> d.dataset, dataset_url |-> d.dataset_url, error |-> tried.msg]

\* [concept.to_dict(lang=lang) for concept in get_concepts(self.engine, iri)]
GlossaryController_get_concepts(tables, concept_scheme_iri, lang) ==
    LET got == get_concepts(tables, concept_scheme_iri)
    IN  IF got.raised # ""
        THEN [raised |-> got.raised, value |-> <<>>]
        ELSE [raised |-> "",
              value |-> [i \in 1..Len(got.value) |-> Concept_to_dict(got.value[i], lang)]]

GlossaryController_get_concept_schemes(tables, lang) ==
    LET got == get_concept_schemes(tables)
    IN  [raised |-> "",
         value |-> [i \in 1..Len(got.value) |-> ConceptScheme_to_dict(got.value[i], lang)]]

\* ------------------------------------------------------ sample documents

Text(tag, text) == [tag |-> tag, resource |-> None, lang |-> None, text |-> text]
Label(tag, lang, text) == [tag |-> tag, resource |-> None, lang |-> lang, text |-> text]
Ref(tag, resource) == [tag |-> tag, resource |-> resource, lang |-> None, text |-> None]
Element(tag, about, children) == [tag |-> tag, about |-> about, children |-> children]

SchemeA ==
    Element("core:ConceptScheme", "s1",
        <<Text("core:notation", "A"), Label("core:prefLabel", "en", "Scheme"),
          Label("core:prefLabel", "fr", "Schema")>>)

\* the IRI of SchemeA with other content
SchemeA2 == Element("core:ConceptScheme", "s1", <<Text("core:notation", "B")>>)

\* one of its labels has no xml:lang
SchemeB ==
    Element("core:ConceptScheme", "s2",
        <<Label("core:prefLabel", "fr", "Autre"), Text("core:prefLabel", "Other")>>)

ConceptC1 ==
    Element("core:Concept", "c1",
        <<Text("x_1.1:identifier", "1"), Text("core:notation", "01"),
          Label("core:prefLabel", "en", "One"), Label("core:prefLabel", "de", "Eins"),
          Label("core:altLabel", "fr", "Un"), Ref("core:inScheme", "s1"),
          Ref("core:broader", "c2"), Ref("core:related", "c1")>>)

\* a member of s1 and of a scheme the document does not describe
ConceptC2 ==
    Element("core:Concept", "c2",
        <<Text("core:prefLabel", "Two"), Label("core:altLabel", "en", "Deux"),
          Ref("core:inScheme", "s1"), Ref("core:inScheme", "s2"),
          Ref("core:narrower", "c1")>>)

\* related to a concept of another document
ConceptC3 ==
    Element("core:Concept", "c3",
        <<Label("core:scopeNote", "fr", "Trois"), Ref("core:inScheme", "s2"),
          Ref("core:related", "c1")>>)

\* two relations of different types between the same pair of concepts
ConceptC4 ==
    Element("core:Concept", "c4",
        <<Ref("core:broader", "c4"), Ref("core:related", "c4")>>)

Document(root) == [status |-> "ok", root |-> root]
Unavailable == [status |-> "unavailable", root |-> <<>>]
Malformed == [status |-> "malformed", root |-> <<>>]

OkDocuments ==
    {Document(<<SchemeA>>), Document(<<SchemeA2>>), Document(<<SchemeB>>),
     Document(<<SchemeA, ConceptC1, ConceptC2>>),
     Document(<<SchemeB, ConceptC3>>),
     Document(<<ConceptC4>>)}

Served == {Unavailable, Malformed} \cup OkDocuments

SchemeIRIs == {"s1", "s2", "s9"}
ConceptIRIs == {"c1", "c2", "c3", "c4", "c9"}
Langs == {"en", "fr", "de"}

\* The arguments a caller of save_dataset builds from a document with the
\* classmethods, as the fixtures of the tests do.
FixtureBatch(document) ==
    LET scheme_elements == RootFindall(document.root, "core:ConceptScheme")
        concept_elements == RootFindall(document.root, "core:Concept")
        concept_schemes ==
            [i \in 1..Len(scheme_elements) |->
                ConceptScheme_from_xml_element(scheme_elements[i])]
    IN  [concept_schemes |-> concept_schemes,
         concepts |->
            [i \in 1..Len(concept_elements) |->
                Concept_from_xml_element(concept_elements[i], concept_schemes)],
         semantic_relations |->
            Concat([i \in 1..Len(concept_elements) |->
                SemanticRelation_from_xml_element(concept_elements[i])])]

\* ------------------------------------------------------------ behaviour

NoRet == [op |-> "", raised |-> ""]
NoCall == [op |-> ""]
NoSave == [called |-> FALSE]
NoRun == [returned |-> FALSE]

SaveRecord(before, batch, saved) ==
    [called |-> TRUE, before |-> before,
     batch |-> [concept_schemes |-> batch.concept_schemes,
                concepts |-> batch.concepts,
                semantic_relations |-> batch.semantic_relations],
     pending |-> PendingRows(batch.concept_schemes, batch.concepts,
                             batch.semantic_relations),
     raised |-> saved.raised, after |-> saved.tables]

\* What the database can hold when the process starts: nothing, or what an
\* earlier process saved (init_engine() without the drop flag keeps it).
PriorTables ==
    LET batch == FixtureBatch(Document(<<SchemeA, ConceptC1, ConceptC2>>))
    IN  {EmptyTables,
         save_dataset(EmptyTables, batch.concept_schemes, batch.concepts,
                      batch.semantic_relations).tables}

\* The state GlossaryController() leaves: init_engine() has created the
\* database (if it did not exist) and its tables.
Constructed(prior) ==
    /\ environ = DatabaseUrl
    /\ database = init_engine(None, FALSE, DatabaseUrl,
                      [exists |-> TRUE, created |-> TRUE, tables |-> prior]).database
    /\ pc = "idle"
    /\ idx = 1
    /\ saved_datasets = <<>>
    /\ failed_datasets = <<>>
    /\ attempts = <<>>
    /\ runs = 0
    /\ saves = 0
    /\ lastSave = NoSave
    /\ reload = FALSE
    /\ prevRun = NoRun
    /\ ret = NoRet

\* The data directory is empty, or holds copies an earlier process saved.
Init ==
    /\ remote \in [DatasetNames -> Served]
    /\ call = NoCall
    /\ \E file \in {NoFile, Document(<<SchemeB>>)} : local = [n \in DatasetNames |-> file]
    /\ \E prior \in PriorTables : Constructed(prior)

\* init_datasets up to the loop: the two lists and init_engine(drop_database_flag=True)
InitDatasetsBegin ==
    /\ pc = "idle"
    /\ runs < MaxRuns
    /\ LET engine == init_engine(None, TRUE, environ, database)
       IN  /\ database' = engine.database
           /\ IF engine.raised # ""
              THEN /\ pc' = "idle"
                   /\ ret' = [op |-> "init_datasets", raised |-> engine.raised]
              ELSE /\ pc' = "loop"
                   /\ ret' = NoRet
    /\ saved_datasets' = <<>>
    /\ failed_datasets' = <<>>
    /\ attempts' = <<>>
    /\ idx' = 1
    /\ runs' = runs + 1
    /\ reload' \in BOOLEAN
    /\ prevRun' = IF ret.op = "init_datasets" /\ ret.raised = ""
                  THEN [returned |-> TRUE, reload |-> reload, value |-> ret.value,
                        tables |-> database.tables]
                  ELSE NoRun
    /\ UNCHANGED <<environ, remote, saves, lastSave, call, local>>

\* one iteration without the except clause: the exception leaves init_datasets
IngestDatasetUncaught ==
    /\ pc = "loop"
    /\ idx <= Len(datasets)
    /\ LET d == datasets[idx]
           tried == TryDataset(remote[d.dataset], database.tables,
                               local[d.dataset], reload)
       IN  /\ database' = [database EXCEPT !.tables = tried.tables]
           /\ local' = [local EXCEPT ![d.dataset] = tried.file]
           /\ IF tried.raised = ""
              THEN /\ saved_datasets' = Append(saved_datasets, SavedEntry(d))
                   /\ UNCHANGED <<pc, ret>>
              ELSE /\ UNCHANGED saved_datasets
                   /\ pc' = "idle"
                   /\ ret' = [op |-> "init_datasets", raised |-> tried.raised]
           /\ attempts' = Append(attempts,
                  [dataset |-> d.dataset, step |-> tried.step,
                   raised |-> tried.raised, msg |-> tried.msg])
    /\ idx' = idx + 1
    /\ UNCHANGED <<environ, remote, failed_datasets, runs, saves, lastSave, call,
                   reload, prevRun>>

\* one iteration of the loop over self.datasets.items(): the try block and
\* its except clause
IngestDataset ==
    /\ pc = "loop"
    /\ idx <= Len(datasets)
    /\ LET d == datasets[idx]
           tried == TryDataset(remote[d.dataset], database.tables,
                               local[d.dataset], reload)
       IN  /\ database' = [database EXCEPT !.tables = tried.tables]
           /\ local' = [local EXCEPT ![d.dataset] = tried.file]
           /\ IF tried.raised = ""
              THEN /\ saved_datasets' = Append(saved_datasets, SavedEntry(d))
                   /\ UNCHANGED failed_datasets
              ELSE /\ failed_datasets' = Append(failed_datasets, FailedEntry(d, tried))
                   /\ UNCHANGED saved_datasets
           /\ attempts' = Append(attempts,
                  [dataset |-> d.dataset, step |-> tried.step,
                   raised |-> tried.raised, msg |-> tried.msg])
           /\ lastSave' =
                  IF tried.step = "save"
                  THEN SaveRecord(database.tables, parse_dataset(tried.file), tried)
                  ELSE lastSave
    /\ idx' = idx + 1
    /\ UNCHANGED <<environ, remote, pc, runs, saves, call, reload, prevRun, ret>>

\* return saved_datasets, failed_datasets
InitDatasetsReturn ==
    /\ pc = "loop"
    /\ idx > Len(datasets)
    /\ pc' = "idle"
    /\ ret' = [op |-> "init_datasets", raised |-> "",
               value |-> <<saved_datasets, failed_datasets>>]
    /\ UNCHANGED <<environ, database, remote, idx, saved_datasets, failed_datasets,
                   attempts, runs, saves, lastSave, call, reload, local, prevRun>>

\* a direct call of save_dataset(engine, concept_schemes, concepts, relations)
SaveDatasetCall ==
    /\ pc = "idle"
    /\ saves < MaxSaves
    /\ \E document \in OkDocuments :
         LET batch == FixtureBatch(document)
             saved == save_dataset(database.tables, batch.concept_schemes,
                                   batch.concepts, batch.semantic_relations)
         IN  /\ database' = [database EXCEPT !.tables = saved.tables]
             /\ lastSave' = SaveRecord(database.tables, batch, saved)
             /\ ret' = [op |-> "save_dataset", raised |-> saved.raised]
    /\ saves' = saves + 1
    /\ UNCHANGED <<environ, remote, pc, idx, saved_datasets, failed_datasets,
                   attempts, runs, call, reload, local, prevRun>>

QueryUnchanged ==
    UNCHANGED <<environ, database, remote, pc, idx, saved_datasets, failed_datasets,
                attempts, runs, saves, lastSave, call, reload, local, prevRun>>

GetConceptSchemesCall ==
    /\ pc = "idle"
    /\ \E lang \in Langs :
         ret' = [op |-> "get_concept_schemes", lang |-> lang]
                @@ GlossaryController_get_concept_schemes(database.tables, lang)
    /\ QueryUnchanged

GetConceptsCall ==
    /\ pc = "idle"
    /\ \E iri \in SchemeIRIs, lang \in Langs :
         ret' = [op |-> "get_concepts", iri |-> iri, lang |-> lang]
                @@ GlossaryController_get_concepts(database.tables, iri, lang)
    /\ QueryUnchanged

GetConceptCall ==
    /\ pc = "idle"
    /\ \E iri \in ConceptIRIs :
         ret' = [op |-> "get_concept", iri |-> iri] @@ get_concept(database.tables, iri)
    /\ QueryUnchanged

GetRelationsCall ==
    /\ pc = "idle"
    /\ \E iri \in ConceptIRIs :
         ret' = [op |-> "get_relations", iri |-> iri] @@ get_relations(database.tables, iri)
    /\ QueryUnchanged

\* Ingestion: runs of init_datasets over what the download URLs serve.
Next ==
    \/ InitDatasetsBegin
    \/ IngestDataset
    \/ InitDatasetsReturn

Spec == Init /\ [][Next]_vars

\* ---- start-up: init_engine and GlossaryController() on any server ----

\* the databases a server can hold before the program starts
Databases ==
    {[exists |-> FALSE, created |-> FALSE, tables |-> EmptyTables],
     [exists |-> TRUE, created |-> FALSE, tables |-> EmptyTables]}
    \cup {[exists |-> TRUE, created |-> TRUE, tables |-> prior] : prior \in PriorTables}

\* the values of os.environ's DATABASE_URL and of the database_url argument
Urls == {None, "", DatabaseUrl}

StartUnchanged ==
    UNCHANGED <<environ, remote, idx, saved_datasets, failed_datasets, attempts,
                runs, saves, lastSave, call, reload, local, prevRun>>

\* before GlossaryController() is called
InitStart ==
    /\ environ \in Urls
    /\ database \in Databases
    /\ remote = [n \in DatasetNames |-> Unavailable]
    /\ local = [n \in DatasetNames |-> NoFile]
    /\ pc = "new"
    /\ idx = 1
    /\ saved_datasets = <<>>
    /\ failed_datasets = <<>>
    /\ attempts = <<>>
    /\ runs = 0
    /\ saves = 0
    /\ lastSave = NoSave
    /\ call = NoCall
    /\ reload = FALSE
    /\ prevRun = NoRun
    /\ ret = NoRet

\* the record of a call of init_engine
EngineRecord(op, database_url, drop_database_flag, before, engine) ==
    [op |-> op, database_url |-> database_url,
     drop_database_flag |-> drop_database_flag, before |-> before,
     raised |-> engine.raised, msg |-> engine.msg, engine |-> engine.engine]

\* GlossaryController(): self.engine = init_engine(); an exception leaves no
\* controller
GlossaryControllerInit ==
    /\ pc \in {"new", "failed"}
    /\ LET engine == init_engine(None, FALSE, environ, database)
       IN  /\ database' = engine.database
           /\ pc' = IF engine.raised # "" THEN "failed" ELSE "idle"
           /\ ret' = EngineRecord("GlossaryController", None, FALSE, database, engine)
    /\ StartUnchanged

\* init_engine(database_url, drop_database_flag)
InitEngineCall ==
    /\ \E database_url \in Urls, drop_database_flag \in BOOLEAN :
         LET engine == init_engine(database_url, drop_database_flag, environ, database)
         IN  /\ database' = engine.database
             /\ ret' = EngineRecord("init_engine", database_url, drop_database_flag,
                                    database, engine)
    /\ UNCHANGED pc
    /\ StartUnchanged

NextStart ==
    \/ GlossaryControllerInit
    \/ InitEngineCall

SpecStart == InitStart /\ [][NextStart]_vars


\* The database functions called directly on a fresh database.
InitDb ==
    /\ remote = [n \in DatasetNames |-> Unavailable]
    /\ local = [n \in DatasetNames |-> NoFile]
    /\ call = NoCall
    /\ Constructed(EmptyTables)

NextDb ==
    \/ SaveDatasetCall
    \/ GetConceptSchemesCall
    \/ GetConceptsCall
    \/ GetConceptCall
    \/ GetRelationsCall

SpecDb == InitDb /\ [][NextDb]_vars

\* ------------------------------------------ localisation, called directly

Texts == {"a", "b"}
LabelDicts == UNION {[D -> Texts] : D \in SUBSET Langs}
QueryLangs == Langs \cup {"it"}

PureUnchanged ==
    UNCHANGED <<environ, database, remote, pc, idx, saved_datasets, failed_datasets,
                attempts, runs, saves, lastSave, call, reload, local, prevRun>>

InitLang ==
    /\ remote = [n \in DatasetNames |-> Unavailable]
    /\ local = [n \in DatasetNames |-> NoFile]
    /\ call \in [attribute : LabelDicts,
                 other : {d \in LabelDicts : Cardinality(DOMAIN d) <= 1 /\ \A k \in DOMAIN d : d[k] = "a"},
                 lang : QueryLangs]
    /\ Constructed(EmptyTables)

GetInLanguageCall ==
    /\ ret' = [op |-> "get_in_language", raised |-> "",
               value |-> get_in_language(call.attribute, call.lang)]
    /\ PureUnchanged

ConceptToDictCall ==
    /\ ret' = [op |-> "Concept.to_dict", raised |-> "",
               value |-> Concept_to_dict(
                   [iri |-> "c1", identifier |-> "1", notation |-> "01",
                    prefLabels |-> call.attribute, altLabels |-> call.other,
                    scopeNotes |-> LabelDict(<<>>), concept_schemes |-> <<>>],
                   call.lang)]
    /\ PureUnchanged

ConceptSchemeToDictCall ==
    /\ ret' = [op |-> "ConceptScheme.to_dict", raised |-> "",
               value |-> ConceptScheme_to_dict(
                   [iri |-> "s1", notation |-> "A", scopeNote |-> "",
                    prefLabels |-> call.attribute],
                   call.lang)]
    /\ PureUnchanged

NextLang ==
    \/ GetInLanguageCall
    \/ ConceptToDictCall
    \/ ConceptSchemeToDictCall

SpecLang == InitLang /\ [][NextLang]_vars

\* -------------------------------------------- extraction, called directly

RelationTags == {"core:" \o SemanticRelationType[t] : t \in 1..Len(SemanticRelationType)}

\* the sub-elements a generated concept element is made of
ChildPool ==
    {Ref("core:inScheme", s) : s \in SchemeIRIs}
    \cup {Ref(tag, c) : tag \in RelationTags \cup {"core:exactMatch"}, c \in {"c1", "c2"}}
    \cup {Label("core:prefLabel", "en", "a"), Text("core:notation", "01")}

ConceptElements ==
    {Element("core:Concept", "c1", children) : children \in SeqsUpTo(ChildPool, MaxChildren)}

SchemeElementLists ==
    {<<>>, <<SchemeA>>, <<SchemeB>>, <<SchemeA, SchemeB>>, <<SchemeB, SchemeA2>>}

InitParse ==
    /\ remote = [n \in DatasetNames |-> Unavailable]
    /\ local = [n \in DatasetNames |-> NoFile]
    /\ call \in [element : ConceptElements, scheme_elements : SchemeElementLists]
    /\ Constructed(EmptyTables)

\* Concept.from_xml_element(element, concept_schemes) as the fixtures call it
ConceptFromXmlCall ==
    /\ LET concept_schemes ==
               [i \in 1..Len(call.scheme_elements) |->
                   ConceptScheme_from_xml_element(call.scheme_elements[i])]
       IN  ret' = [op |-> "Concept.from_xml_element", raised |-> "",
                   value |-> Concept_from_xml_element(call.element, concept_schemes)]
    /\ PureUnchanged

SemanticRelationFromXmlCall ==
    /\ ret' = [op |-> "SemanticRelation.from_xml_element", raised |-> "",
               value |-> SemanticRelation_from_xml_element(call.element)]
    /\ PureUnchanged

\* parse_dataset of the document made of the scheme elements and the concept
ParseDatasetCall ==
    /\ ret' = [op |-> "parse_dataset"]
              @@ parse_dataset(Document(call.scheme_elements \o <<call.element>>))
    /\ PureUnchanged

NextParse ==
    \/ ConceptFromXmlCall
    \/ SemanticRelationFromXmlCall
    \/ ParseDatasetCall

SpecParse == InitParse /\ [][NextParse]_vars

\* ------------------------------------------------------------- claims

Count(s, Test(_)) == Cardinality({i \in 1..Len(s) : Test(s[i])})

\* the rows of a batch, table by table
TablesOf(pending) ==
    LET RowsOf(t) == {pending[k].row : k \in {j \in 1..Len(pending) : pending[j].table = t}}
    IN  [concept_schemes |-> RowsOf("concept_schemes"), concepts |-> RowsOf("concepts"),
         in_scheme |-> RowsOf("in_scheme"),
         semantic_relations |-> RowsOf("semantic_relations")]

TablesUnion(a, b) ==
    [concept_schemes |-> a.concept_schemes \cup b.concept_schemes,
     concepts |-> a.concepts \cup b.concepts,
     in_scheme |-> a.in_scheme \cup b.in_scheme,
     semantic_relations |-> a.semantic_relations \cup b.semantic_relations]

TablesWithin(a, b) ==
    /\ a.concept_schemes \subseteq b.concept_schemes
    /\ a.concepts \subseteq b.concepts
    /\ a.in_scheme \subseteq b.in_scheme
    /\ a.semantic_relations \subseteq b.semantic_relations

\* C1: init_datasets is best-effort.  While the loop runs and after it, the
\* datasets attempted so far are exactly the first idx - 1 configured ones,
\* each appears once in exactly one of the two lists, a failed entry carries
\* the message of the exception its attempt raised, an attempt that raised
\* leaves the loop at the next dataset, and the call returns the two lists
\* normally with every configured dataset in them.
C1_BestEffort ==
    LET n == idx - 1
        InSaved(i) == LET Is(e) == e.dataset = datasets[i].dataset
                      IN  Count(saved_datasets, Is)
        InFailed(i) == LET Is(e) == e.dataset = datasets[i].dataset
                       IN  Count(failed_datasets, Is)
    IN  /\ Len(attempts) = n
        /\ Len(saved_datasets) + Len(failed_datasets) = n
        /\ \A i \in 1..n :
             /\ attempts[i].dataset = datasets[i].dataset
             /\ InSaved(i) + InFailed(i) = 1
             /\ InSaved(i) = 1 <=> attempts[i].raised = ""
             /\ InFailed(i) = 1 =>
                  [dataset |-> datasets[i].dataset,
                   dataset_url |-> datasets[i].dataset_url,
                   error |-> attempts[i].msg] \in Range(failed_datasets)
        /\ pc = "loop" => idx \in 1..(Len(datasets) + 1)
        /\ (pc = "idle" /\ runs > 0) =>
             /\ ret.op = "init_datasets"
             /\ ret.raised = ""
             /\ ret.value = <<saved_datasets, failed_datasets>>
             /\ n = Len(datasets)

\* a run has returned in which the first dataset failed and the last succeeded
C1_Witness ==
    /\ ret.op = "init_datasets"
    /\ ret.raised = ""
    /\ attempts[1].raised # ""
    /\ attempts[Len(datasets)].raised = ""
    /\ ret.value[1] # <<>>
    /\ ret.value[2] # <<>>

\* C2: when init_datasets has returned, a dataset whose document (the one
\* at its dataset_path) is well formed, whose records the empty database accepts, and which is the only
\* one of the run that parses (the documents of the others are malformed),
\* is in the succeeded list and all its scheme, concept, membership
\* and relation records are in the database.
C2_ParsedDatasetPersisted ==
    (ret.op = "init_datasets" /\ ret.raised = "") =>
        \A i \in 1..Len(datasets) :
            LET document == local[datasets[i].dataset]
                batch == FixtureBatch(document)
                pending == PendingRows(batch.concept_schemes, batch.concepts,
                                       batch.semantic_relations)
            IN  (/\ document.status = "ok"
                 /\ Flush(EmptyTables, pending).raised = ""
                 /\ \A j \in 1..Len(datasets) :
                        j # i => local[datasets[j].dataset].status = "malformed")
                => /\ SavedEntry(datasets[i]) \in Range(ret.value[1])
                   /\ TablesWithin(TablesOf(pending), database.tables)

\* the records of the datasets of a list of succeeded entries
RECURSIVE RecordsOf(_)
RecordsOf(entries) ==
    IF entries = <<>> THEN EmptyTables
    ELSE LET parsed == parse_dataset(local[Head(entries).dataset])
         IN  TablesUnion(
                 TablesOf(PendingRows(parsed.concept_schemes, parsed.concepts,
                                      parsed.semantic_relations)),
                 RecordsOf(Tail(entries)))

\* C10: the dataset lifecycle is drop-and-recreate.  When the loop of a run
\* is about to attempt its first dataset the tables are empty, whatever the
\* database held before; while the run goes on and when it has returned the
\* database holds exactly the records of the datasets in the run's succeeded
\* list (nothing at all when every dataset failed).
C10_DropAndRecreate ==
    /\ (pc = "loop" /\ idx = 1) => database.tables = EmptyTables
    /\ runs > 0 =>
         /\ database.exists
         /\ database.created
         /\ database.tables = RecordsOf(saved_datasets)
    /\ (ret.op = "init_datasets" /\ ret.raised = "" /\ ret.value[1] = <<>>) =>
         database.tables = EmptyTables

\* the second run is about to attempt its first dataset on empty tables, and
\* its first dataset is one the first run persisted
C10_Witness ==
    /\ runs = 2
    /\ pc = "loop"
    /\ idx = 1
    /\ database.tables = EmptyTables
    /\ LET first == TryDataset(remote[datasets[1].dataset], EmptyTables,
                               local[datasets[1].dataset], reload)
       IN  first.raised = "" /\ first.tables # EmptyTables

\* C11: ingestion is idempotent.  With the served documents unchanged, when
\* a call of init_datasets returns after an earlier call with the same
\* reload flag returned, it returns the same succeeded and failed lists as
\* the earlier call and leaves the same database content; so no dataset
\* of the earlier succeeded list is in the later failed list.
C11_Idempotent ==
    (/\ ret.op = "init_datasets"
     /\ ret.raised = ""
     /\ prevRun.returned
     /\ prevRun.reload = reload) =>
        /\ ret.value = prevRun.value
        /\ database.tables = prevRun.tables
        /\ \A s \in Range(prevRun.value[1]) :
               \A f \in Range(ret.value[2]) : f.dataset # s.dataset

\* a second run has returned after a first one that persisted a dataset and
\* reported another as failed, both with the same reload flag
C11_Witness ==
    /\ runs = 2
    /\ ret.op = "init_datasets"
    /\ ret.raised = ""
    /\ prevRun.returned
    /\ prevRun.reload = reload
    /\ prevRun.value[1] # <<>>
    /\ prevRun.value[2] # <<>>
    /\ prevRun.tables # EmptyTables

\* C12: configuration is a precondition.  A call of init_engine without a
\* database_url while DATABASE_URL is unset or empty, GlossaryController()
\* included, raises ValueError before create_engine is called and leaves the
\* database as it was (not created, not dropped, no table created); the
\* construction of the controller has then failed.
C12_UrlRequired ==
    (/\ ret.op \in {"init_engine", "GlossaryController"}
     /\ ret.database_url = None
     /\ environ \in {None, ""}) =>
        /\ ret.raised = "ValueError"
        /\ ret.msg = "DATABASE_URL environment variable is not set."
        /\ ~ret.engine
        /\ database = ret.before
        /\ ret.op = "GlossaryController" => pc = "failed"

\* GlossaryController() has failed with DATABASE_URL empty, on a server
\* whose database does not exist
C12_Witness ==
    /\ ret.op = "GlossaryController"
    /\ environ = ""
    /\ pc = "failed"
    /\ ret.raised = "ValueError"
    /\ ~database.exists

\* what the localized lookup has to return
Localized(mapping, lang) ==
    CASE lang \in DOMAIN mapping -> mapping[lang]
      [] lang \notin DOMAIN mapping /\ "en" \in DOMAIN mapping -> mapping["en"]
      [] OTHER -> ""

\* the record with the IRI among the records a query returned
ReadBack(records, iri) == {r \in Range(records) : r.iri = iri}

\* C13: round trip.  For every scheme, concept and relation of a batch
\* that save_dataset has persisted and every language code, each field of
\* to_dict is the record's own attribute (iri, notation, identifier, scope
\* note, endpoints, type tag) or the record's label mapping localized to the
\* language, and the record read back from the database serializes to the
\* same dictionary as the record that was saved.
C13_RoundTrip ==
    (lastSave.called /\ lastSave.raised = "") =>
        \A lang \in QueryLangs :
            /\ \A s \in Range(lastSave.batch.concept_schemes) :
                   /\ ConceptScheme_to_dict(s, lang) =
                          [iri |-> s.iri, notation |-> s.notation,
                           scopeNote |-> s.scopeNote,
                           prefLabel |-> Localized(s.prefLabels, lang)]
                   /\ {ConceptScheme_to_dict(r, lang) :
                           r \in ReadBack(get_concept_schemes(database.tables).value, s.iri)}
                      = {ConceptScheme_to_dict(s, lang)}
            /\ \A c \in Range(lastSave.batch.concepts) :
                   /\ Concept_to_dict(c, lang) =
                          [iri |-> c.iri, identifier |-> c.identifier,
                           notation |-> c.notation,
                           prefLabel |-> Localized(c.prefLabels, lang),
                           altLabel |-> Localized(c.altLabels, lang),
                           scopeNote |-> Localized(c.scopeNotes, lang)]
                   /\ {Concept_to_dict(r, lang) :
                           r \in Range(get_concept(database.tables, c.iri).value)}
                      = {Concept_to_dict(c, lang)}
            /\ \A x \in Range(lastSave.batch.semantic_relations) :
                   /\ SemanticRelation_to_dict(x) =
                          [type |-> x.type,
                           source_concept_iri |-> x.source_concept_iri,
                           target_concept_iri |-> x.target_concept_iri]
                   /\ x.type \in Range(SemanticRelationType)
                   /\ {SemanticRelation_to_dict(r) :
                           r \in {y \in Range(get_relations(database.tables,
                                                            x.source_concept_iri).value) :
                                     /\ y.source_concept_iri = x.source_concept_iri
                                     /\ y.target_concept_iri = x.target_concept_iri}}
                      = {SemanticRelation_to_dict(x)}

\* a batch with a scheme, a concept one of whose labels has no xml:lang and
\* relations was persisted, and the relations of one of its concepts were
\* read back
C13_Witness ==
    /\ lastSave.called
    /\ lastSave.raised = ""
    /\ lastSave.batch.concept_schemes # <<>>
    /\ \E c \in Range(lastSave.batch.concepts) :
           /\ None \in DOMAIN c.prefLabels
           /\ "null" \in DOMAIN get_concept(database.tables, c.iri).value[1].prefLabels
    /\ Len(lastSave.batch.semantic_relations) > 1
    /\ ret.op = "get_relations"
    /\ ret.value # <<>>
    /\ ret.value[1].type \in Range(SemanticRelationType)

\* no two schemes and no two concepts with one IRI, no two relations with
\* one ordered pair of endpoints
KeysUnique(tables) ==
    /\ \A a \in tables.concept_schemes, b \in tables.concept_schemes :
           a.iri = b.iri => a = b
    /\ \A a \in tables.concepts, b \in tables.concepts : a.iri = b.iri => a = b
    /\ \A a \in tables.semantic_relations, b \in tables.semantic_relations :
           (/\ a.source_concept_iri = b.source_concept_iri
            /\ a.target_concept_iri = b.target_concept_iri) => a = b

\* two rows of a keyed table that stand for two records with one key
SameKey(table, a, b) ==
    CASE table \in {"concept_schemes", "concepts"} -> a.iri = b.iri
      [] table = "semantic_relations" ->
             /\ a.source_concept_iri = b.source_concept_iri
             /\ a.target_concept_iri = b.target_concept_iri
      [] OTHER -> FALSE

\* a record of the batch has the key of a persisted record or of an earlier
\* record of the batch
KeyConflict(tables, pending) ==
    \E k \in 1..Len(pending) :
        \/ \E r \in tables[pending[k].table] :
               SameKey(pending[k].table, r, pending[k].row)
        \/ \E j \in 1..(k - 1) :
               /\ pending[j].table = pending[k].table
               /\ SameKey(pending[k].table, pending[j].row, pending[k].row)

\* the rows of the records a dataset's document holds
DatasetRows(document) ==
    LET batch == FixtureBatch(document)
    IN  PendingRows(batch.concept_schemes, batch.concepts, batch.semantic_relations)

\* what the datasets before the i-th that the run has saved have persisted
SavedBefore(i) ==
    LET Before(e) == \E j \in 1..(i - 1) : datasets[j].dataset = e.dataset
    IN  RecordsOf(SelectSeq(saved_datasets, Before))

\* the i-th dataset of the run is in the failed list and not in the
\* succeeded list
ReportedFailed(i) ==
    /\ \E f \in Range(failed_datasets) :
           /\ f.dataset = datasets[i].dataset
           /\ f.error = attempts[i].msg
    /\ \A e \in Range(saved_datasets) : e.dataset # datasets[i].dataset
    /\ attempts[i].raised # ""

\* C14: key uniqueness.  In every state no two persisted schemes share an
\* IRI, no two persisted concepts share an IRI and no two persisted
\* relations share the ordered pair (source, target), whatever their types.
\* save_dataset keeps it so from every such state: a batch with a record
\* whose key is taken, in the batch or in the database, raises and leaves
\* the tables as they were.  A dataset of a run whose records conflict among
\* themselves or with those of a dataset saved earlier in the run is in the
\* failed list, not in the succeeded list, and the tables hold the records
\* of the succeeded datasets only.
C14_KeyUniqueness ==
    /\ KeysUnique(database.tables)
    /\ \A document \in OkDocuments :
           LET batch == FixtureBatch(document)
               saved == save_dataset(database.tables, batch.concept_schemes,
                                     batch.concepts, batch.semantic_relations)
           IN  /\ KeysUnique(saved.tables)
               /\ KeyConflict(database.tables, DatasetRows(document)) =>
                      /\ saved.raised = "IntegrityError"
                      /\ saved.tables = database.tables
    /\ \A i \in 1..Len(attempts) :
           LET document == local[datasets[i].dataset]
           IN  (/\ document.status = "ok"
                /\ KeyConflict(SavedBefore(i), DatasetRows(document)))
               => /\ ReportedFailed(i)
                  /\ database.tables = RecordsOf(saved_datasets)

\* a run has returned that saved a dataset and rejected a later one whose
\* scheme has the IRI of a scheme saved before it
C14_Witness ==
    /\ ret.op = "init_datasets"
    /\ ret.raised = ""
    /\ saved_datasets # <<>>
    /\ \E i \in 2..Len(attempts) :
           /\ attempts[i].raised = "IntegrityError"
           /\ attempts[i].step = "save"
           /\ KeyConflict(SavedBefore(i), DatasetRows(local[datasets[i].dataset]))
           /\ ReportedFailed(i)
    /\ database.tables.concept_schemes # {}

\* every relation joins persisted concepts, every membership a persisted
\* scheme and a persisted concept
RefIntegrity(tables) ==
    LET concept_iris == {c.iri : c \in tables.concepts}
        scheme_iris == {x.iri : x \in tables.concept_schemes}
    IN  /\ \A r \in tables.semantic_relations :
               /\ r.source_concept_iri \in concept_iris
               /\ r.target_concept_iri \in concept_iris
        /\ \A m \in tables.in_scheme :
               /\ m.scheme_iri \in scheme_iris
               /\ m.concept_iri \in concept_iris

\* a relation of the batch has a target that neither the database nor the
\* batch has as a concept
Dangling(tables, pending) ==
    LET Of(t) == {pending[k].row : k \in {j \in 1..Len(pending) : pending[j].table = t}}
        concept_iris == {c.iri : c \in tables.concepts \cup Of("concepts")}
    IN  \E r \in Of("semantic_relations") : r.target_concept_iri \notin concept_iris

\* C15: referential integrity.  In every state the source and the target of
\* every persisted relation are IRIs of persisted concepts and every
\* in_scheme row refers to a persisted scheme and a persisted concept.
\* save_dataset keeps it so from every such state: a batch with a relation
\* whose target is a concept neither of the batch nor of the database, which
\* extraction passed through, raises and leaves the tables as they were.  A
\* dataset of a run with such a relation is in the failed list, not in the
\* succeeded list, and the tables hold the records of the succeeded
\* datasets only.
C15_ReferentialIntegrity ==
    /\ RefIntegrity(database.tables)
    /\ \A document \in OkDocuments :
           LET batch == FixtureBatch(document)
               saved == save_dataset(database.tables, batch.concept_schemes,
                                     batch.concepts, batch.semantic_relations)
           IN  /\ RefIntegrity(saved.tables)
               /\ Dangling(database.tables, DatasetRows(document)) =>
                      /\ saved.raised = "IntegrityError"
                      /\ saved.tables = database.tables
    /\ \A i \in 1..Len(attempts) :
           LET document == local[datasets[i].dataset]
           IN  (/\ document.status = "ok"
                /\ Dangling(SavedBefore(i), DatasetRows(document)))
               => /\ ReportedFailed(i)
                  /\ database.tables = RecordsOf(saved_datasets)

\* a run has returned that reported as failed a dataset with a relation to
\* a concept that is persisted nowhere, after it saved another dataset
C15_Witness ==
    /\ ret.op = "init_datasets"
    /\ ret.raised = ""
    /\ saved_datasets # <<>>
    /\ \E i \in 2..Len(attempts) :
           LET document == local[datasets[i].dataset]
               batch == FixtureBatch(document)
           IN  /\ document.status = "ok"
               /\ Dangling(SavedBefore(i), DatasetRows(document))
               /\ \E x \in Range(batch.semantic_relations) :
                      x.target_concept_iri \notin {c.iri : c \in Range(batch.concepts)}
               /\ ReportedFailed(i)
               /\ save_dataset(database.tables, batch.concept_schemes, batch.concepts,
                               batch.semantic_relations).raised = "IntegrityError"

\* C3: save_dataset is atomic.  After a call the tables are the tables
\* before it together with every row of the batch (the schemes, the
\* concepts, their in_scheme memberships and the relations) when the call
\* returned, and exactly the tables before it when a row was rejected and
\* the call raised; nothing else changes the tables between two calls.
C3_SaveAtomic ==
    lastSave.called =>
        /\ database.tables = lastSave.after
        /\ lastSave.raised = "" =>
             lastSave.after = TablesUnion(lastSave.before, TablesOf(lastSave.pending))
        /\ lastSave.raised # "" => lastSave.after = lastSave.before
        /\ lastSave.raised # "" <=>
             \E k \in 1..Len(lastSave.pending) :
                 Insert(TablesUnion(lastSave.before,
                                    TablesOf(SubSeq(lastSave.pending, 1, k - 1))),
                        lastSave.pending[k].table, lastSave.pending[k].row).raised # ""

\* a batch was rejected after its first rows had been accepted, on a database
\* that held the records of an earlier batch, and these are intact
C3_Witness ==
    /\ lastSave.called
    /\ lastSave.raised # ""
    /\ lastSave.before # EmptyTables
    /\ Len(lastSave.pending) > 1
    /\ Insert(lastSave.before, lastSave.pending[1].table, lastSave.pending[1].row).raised = ""
    /\ database.tables = lastSave.before

\* the concepts the join table in_scheme records as members of a scheme
MembersOf(tables, scheme_iri) ==
    {c \in tables.concepts :
        [scheme_iri |-> scheme_iri, concept_iri |-> c.iri] \in tables.in_scheme}

\* C5: get_concepts returns, for every database state and scheme IRI, the
\* dictionaries of exactly the persisted concepts that in_scheme records as
\* members of that scheme, each once, and the empty list, not an error, for
\* an IRI that owns no concept.
C5_ConceptsOfScheme ==
    ret.op = "get_concepts" =>
        /\ ret.raised = ""
        /\ Range(ret.value) =
               {Concept_to_dict(c, ret.lang) : c \in MembersOf(database.tables, ret.iri)}
        /\ Len(ret.value) = Cardinality(MembersOf(database.tables, ret.iri))

\* C6: get_relations returns exactly the persisted relations that have the
\* IRI as source or as target, each once (a self-relation too), and nothing
\* for an IRI that occurs in no relation.
C6_RelationsOfConcept ==
    ret.op = "get_relations" =>
        LET persisted == {LoadRelation(r) : r \in database.tables.semantic_relations}
            asSource == {r \in persisted : r.source_concept_iri = ret.iri}
            asTarget == {r \in persisted : r.target_concept_iri = ret.iri}
        IN  /\ ret.raised = ""
            /\ Range(ret.value) = asSource \cup asTarget
            /\ Len(ret.value) = Cardinality(asSource \cup asTarget)
            /\ (asSource = {} /\ asTarget = {}) => ret.value = <<>>

\* the relations of a concept that is the source of one relation, the target
\* of another and both ends of a third
C6_Witness ==
    /\ ret.op = "get_relations"
    /\ Len(ret.value) = 3
    /\ \E i \in 1..3 : /\ ret.value[i].source_concept_iri = ret.iri
                       /\ ret.value[i].target_concept_iri = ret.iri
    /\ \E i \in 1..3 : /\ ret.value[i].source_concept_iri # ret.iri
                       /\ ret.value[i].target_concept_iri = ret.iri
    /\ \E i \in 1..3 : /\ ret.value[i].source_concept_iri = ret.iri
                       /\ ret.value[i].target_concept_iri # ret.iri

\* C7: get_concept never raises.  It returns the one persisted concept with
\* the IRI when there is one and None when there is none, at most one concept
\* has a given IRI, and the query leaves the tables as the last save left them.
C7_ConceptByIri ==
    /\ \A c1 \in database.tables.concepts, c2 \in database.tables.concepts :
           c1.iri = c2.iri => c1 = c2
    /\ ret.op = "get_concept" =>
           LET found == {c \in database.tables.concepts : c.iri = ret.iri}
           IN  /\ ret.raised = ""
               /\ found = {} => ret.value = <<>>
               /\ found # {} => (Len(ret.value) = 1 /\ ret.value[1] \in found)
               /\ database.tables =
                      IF lastSave.called THEN lastSave.after ELSE EmptyTables

\* a miss on a database that holds concepts
C7_Witness ==
    /\ ret.op = "get_concept"
    /\ ret.raised = ""
    /\ ret.value = <<>>
    /\ database.tables.concepts # {}

\* C4: localized lookup never fails.  For every label mapping and language
\* get_in_language returns the entry of the language when the mapping has
\* one, else the entry of "en" when it has one, else the empty string, and
\* to_dict of a concept and of a scheme gives prefLabel, altLabel and
\* scopeNote that value, also for a language the mapping lacks and for the
\* empty mapping.
C4_LocalizedLookup ==
    /\ ret.op = "get_in_language" =>
         /\ ret.raised = ""
         /\ ret.value = Localized(call.attribute, call.lang)
    /\ ret.op = "Concept.to_dict" =>
         /\ ret.raised = ""
         /\ ret.value.prefLabel = Localized(call.attribute, call.lang)
         /\ ret.value.altLabel = Localized(call.other, call.lang)
         /\ ret.value.scopeNote = ""
    /\ ret.op = "ConceptScheme.to_dict" =>
         /\ ret.raised = ""
         /\ ret.value.prefLabel = Localized(call.attribute, call.lang)

\* to_dict in a language the preferred labels lack: prefLabel is the English
\* label, and altLabel, whose mapping has neither, is the empty string
C4_Witness ==
    /\ ret.op = "Concept.to_dict"
    /\ call.lang \notin DOMAIN call.attribute
    /\ call.lang # "en"
    /\ "en" \in DOMAIN call.attribute
    /\ ret.value.prefLabel = call.attribute["en"]
    /\ DOMAIN call.other = {"fr"}
    /\ call.lang # "fr"
    /\ ret.value.altLabel = ""

\* C8: after parsing a dataset, the concept made from a concept element is
\* a member of a scheme of the document if and only if the element has an
\* inScheme reference to that scheme's IRI.
C8_MembershipAfterParsing ==
    ret.op = "parse_dataset" =>
        /\ ret.raised = ""
        /\ Len(ret.concepts) = 1
        /\ \A k \in 1..Len(ret.concept_schemes) :
               ret.concept_schemes[k] \in Range(ret.concepts[1].concept_schemes)
               <=> \E i \in 1..Len(call.element.children) :
                       /\ call.element.children[i].tag = "core:inScheme"
                       /\ call.element.children[i].resource = ret.concept_schemes[k].iri

\* C9: SemanticRelation.from_xml_element returns one record per sub-element
\* tagged with one of the five relation types: as many records of a type and
\* a target as the element has sub-elements of that type referring to that
\* target, each with the element's IRI as source, and no record besides.
C9_OneRelationPerSubElement ==
    ret.op = "SemanticRelation.from_xml_element" =>
        LET children == call.element.children
            value == ret.value
            Tagged(c) == c.tag \in RelationTags
        IN  /\ ret.raised = ""
            /\ Len(value) = Count(children, Tagged)
            /\ \A k \in 1..Len(value) :
                   /\ value[k].source_concept_iri = call.element.about
                   /\ value[k].type \in Range(SemanticRelationType)
            /\ \A t \in Range(SemanticRelationType), x \in ConceptIRIs :
                   LET Refers(c) == c.tag = "core:" \o t /\ c.resource = x
                       Is(r) == r = [type |-> t,
                                     source_concept_iri |-> call.element.about,
                                     target_concept_iri |-> x]
                   IN  Count(value, Is) = Count(children, Refers)

\* an element with one broader and one related sub-element gave two records
C9_Witness ==
    /\ ret.op = "SemanticRelation.from_xml_element"
    /\ LET IsBroader(c) == c.tag = "core:broader"
           IsRelated(c) == c.tag = "core:related"
       IN  /\ Count(call.element.children, IsBroader) = 1
           /\ Count(call.element.children, IsRelated) = 1
    /\ Len(ret.value) = 2
    /\ ret.value[1].type = "broader"
    /\ ret.value[2].type = "related"

====
